---- MODULE Spec2Model ----
(***************************************************************************)
(* Model of the nexus router's realm registry and Attach handshake         *)
(* (package router) and of the wamp.Session termination state.             *)
(*                                                                         *)
(* Callers of the router are tasks that each make one call: AddRealm,      *)
(* Attach or Close.  A call that submits a closure to r.actionChan waits   *)
(* at a "*_send" position until router.run receives it; the run loop then  *)
(* executes the closure, which ends by handing the result over the call's  *)
(* unbuffered sync channel.                                                 *)
(***************************************************************************)
EXTENDS Integers, Sequences, FiniteSets, TLC

\* ------------------------------------------------------------------ bounds
NumAdders == 2
NumAttachers == 2
NumClosers == 1
NumSessionCallers == 3

Adders == 1..NumAdders
Attachers == (NumAdders + 1)..(NumAdders + NumAttachers)
Closers == (NumAdders + NumAttachers + 1)..(NumAdders + NumAttachers + NumClosers)
Procs == Adders \cup Attachers \cup Closers
SessionCallers == 1..NumSessionCallers

\* Realm identifiers the callers and peers use.  "B" is well-formed only
\* under loose checking; "" is the empty identifier.
URIs == {"a", "B"}

NoRealm == 0
\* Configuration objects: the auto-realm template, or the one an AddRealm
\* caller p passes (its own, numbered p).
TemplateConfig == 0
EmptyRealms == [u \in {} |-> NoRealm]

\* ------------------------------------------------------------------ wamp
ErrNoSuchRealm == "wamp.error.no_such_realm"
ErrNoSuchRole == "wamp.error.no_such_role"
ErrAuthenticationFailed == "wamp.error.authentication_failed"
ErrSystemShutdown == "wamp.error.system_shutdown"
ErrProtocolViolation == "wamp.exception.protocol_violation"

Abort(reason) == [type |-> "ABORT", reason |-> reason]
Welcome == [type |-> "WELCOME", reason |-> ""]

\* URI.ValidURI(strict, ""): the identifier is well-formed under the policy.
ValidURI(u, strict) ==
    /\ u /= ""
    /\ u \in (IF strict THEN {"a"} ELSE {"a", "B"})

\* What a peer may announce in Hello.Details.roles: no roles record at all,
\* or a record with these role names.
NoRoles == [present |-> FALSE, names |-> {}]
RoleInputs ==
    {NoRoles} \cup
    {[present |-> TRUE, names |-> s] :
        s \in {{}, {"publisher", "callee"},
               {"bogus-role"}, {"publisher", "bogus-role"}}}

RecognizedRoles == {"publisher", "subscriber", "caller", "callee"}

\* CheckRoles, were the roles not checked at all.
CheckRoles_NoCheck(roles) == ""

\* CheckRoles, were the announced role names not compared with the known ones.
CheckRoles_NamesUnchecked(roles) ==
    IF ~roles.present \/ roles.names = {} THEN "no client roles specified"
    ELSE ""

\* The role check of Attach: "" when the roles are accepted, or the error.
CheckRoles(roles) ==
    IF ~roles.present THEN "no client roles specified"
    ELSE IF roles.names = {} THEN "no client roles specified"
    ELSE IF \E n \in roles.names : n \notin RecognizedRoles
         THEN "invalid client role specified"
    ELSE ""

\* ------------------------------------------------------------------ state
VARIABLES
    realms,            \* r.realms: identifier -> realm instance
    closed,            \* r.closed
    waitRealms,        \* r.waitRealms counter
    autoRealmTemplate, \* r.autoRealmTemplate /= nil
    tmplConfig,        \* the RealmConfig r.autoRealmTemplate points to
    strictURI,         \* r.strictURI
    insts,             \* realm instances made by NewRealm, in order
    pc,                \* position of each caller
    uri,               \* config.URI / hello.Realm of the call
    err,               \* error the call returned ("" is nil)
    rlm,               \* the call's local variable realm
    sent,              \* messages sent to the call's peer, in order
    peerClosed,        \* the call's peer transport was closed
    hroles,            \* Hello.Details.roles as the call read it
    sessID,            \* welcome.ID the call assigned
    mu,                \* Session.mu: 0 when free, else the holder
    done,              \* Session.done: NilChan or a channel
    goodbye,           \* Session.goodbye: Nil, NoGoodbye or a reason
    chans,             \* channel -> number of times it was closed
    spc,               \* position of each caller of the session
    sop,               \* the method it calls, with its argument
    sret               \* what the method returned

sessionVars == <<mu, done, goodbye, chans, spc, sop, sret>>

vars == <<realms, closed, waitRealms, autoRealmTemplate, tmplConfig, strictURI,
          insts, pc, uri, err, rlm, sent, peerClosed, hroles, sessID,
          sessionVars>>

Pending == "pending"
\* The roles of a HELLO whose details were not read (yet).
NotRead == [present |-> FALSE, names |-> {"<not read>"}]
NoID == 0

\* ------------------------------------------------------------------ session
\* Values of a *Goodbye: nil, the NoGoodbye sentinel, or a reason given.
Nil == "nil"
NoGoodbye == "NoGoodbye"
Reasons == {"reasonA", "reasonB"}

\* Channels: NilChan is the nil channel, closedchan the package's reusable
\* closed channel; make(chan struct{}) yields the next unused number.
NilChan == 0
closedchan == 1

NoOp == [method |-> "", arg |-> Nil]
NoRet == [kind |-> "none", chan |-> NilChan, bool |-> FALSE, goodbye |-> Nil]

\* A session right after NewSession, in a package whose init() has run.
SessionInit ==
    /\ mu = 0
    /\ done = NilChan
    /\ goodbye = Nil
    /\ chans = [c \in {closedchan} |-> 1]
    /\ spc = [p \in SessionCallers |-> "idle"]
    /\ sop = [p \in SessionCallers |-> NoOp]
    /\ sret = [p \in SessionCallers |-> NoRet]

\* NewRouter
RouterInit ==
    /\ realms = EmptyRealms
    /\ closed = FALSE
    /\ waitRealms = 0
    /\ autoRealmTemplate \in BOOLEAN
    /\ tmplConfig = [URI |-> "", StrictURI |-> FALSE]
    /\ strictURI \in BOOLEAN
    /\ insts = <<>>
    /\ pc = [p \in Procs |-> "idle"]
    /\ uri = [p \in Procs |-> ""]
    /\ err = [p \in Procs |-> Pending]
    /\ rlm = [p \in Procs |-> NoRealm]
    /\ sent = [p \in Procs |-> <<>>]
    /\ peerClosed = [p \in Procs |-> FALSE]
    /\ hroles = [p \in Procs |-> NotRead]
    /\ sessID = [p \in Procs |-> NoID]

Init == RouterInit /\ SessionInit

\* ------------------------------------------------------------------ helpers
\* NewRealm(config): a fresh realm instance, not yet running.
NewRealm(u, config, by) ==
    [uri |-> u, config |-> config, by |-> by, closed |-> FALSE, task |-> "none"]

\* Register, were the map replaced instead of updated.
Register_Overwrite(u, i) == [v \in {u} |-> i]

\* r.realms[u] = realm
Register(u, i) ==
    [v \in (DOMAIN realms) \cup {u} |-> IF v = u THEN i ELSE realms[v]]

\* sendAbort: client.Send(&abortMsg); client.Close()
sendAbort(p, reason) ==
    /\ sent' = [sent EXCEPT ![p] = Append(@, Abort(reason))]
    /\ peerClosed' = [peerClosed EXCEPT ![p] = TRUE]

Return(p, e) ==
    /\ pc' = [pc EXCEPT ![p] = "done"]
    /\ err' = [err EXCEPT ![p] = e]

routerState == <<realms, closed, waitRealms, autoRealmTemplate, tmplConfig,
                 strictURI, insts>>
peerState == <<sent, peerClosed>>
handshakeState == <<hroles, sessID>>

\* ------------------------------------------------------------------ AddRealm
\* AddRealm up to the send on r.actionChan: the identifier is validated.
AddRealmCall(p) ==
    /\ p \in Adders
    /\ pc[p] = "idle"
    /\ \E u \in URIs \cup {""} :
        /\ uri' = [uri EXCEPT ![p] = u]
        /\ IF ValidURI(u, strictURI)
           THEN /\ pc' = [pc EXCEPT ![p] = "add_send"]
                /\ UNCHANGED err
           ELSE Return(p, "invalid realm URI")
    /\ UNCHANGED sessionVars
    /\ UNCHANGED handshakeState
    /\ UNCHANGED <<routerState, rlm, peerState>>

\* AddRealmResult, were r.closed not checked.
AddRealmResult_NoClosedCheck(u) ==
    IF u \in DOMAIN realms THEN "realm already exists" ELSE ""

\* AddRealmResult, were the lookup of the identifier left out.
AddRealmResult_NoLookup(u) == IF closed THEN "router closed" ELSE ""

\* What AddRealm's closure hands over sync.
AddRealmResult(u) ==
    IF closed THEN "router closed"
    ELSE IF u \in DOMAIN realms THEN "realm already exists"
    ELSE ""

\* router.run executes AddRealm's closure; the caller receives err from sync
\* and returns it when it is not nil.
AddRealmAction(p) ==
    /\ p \in Adders
    /\ pc[p] = "add_send"
    /\ LET e == AddRealmResult(uri[p]) IN
        IF e /= ""
        THEN /\ Return(p, "error adding realm: " \o e)
             /\ UNCHANGED <<realms, insts, rlm>>
        ELSE /\ insts' = Append(insts, NewRealm(uri[p], p, "AddRealm"))
             /\ realms' = Register(uri[p], Len(insts) + 1)
             /\ rlm' = [rlm EXCEPT ![p] = Len(insts) + 1]
             /\ pc' = [pc EXCEPT ![p] = "add_spawn"]
             /\ UNCHANGED err
    /\ UNCHANGED sessionVars
    /\ UNCHANGED handshakeState
    /\ UNCHANGED <<closed, waitRealms, autoRealmTemplate, tmplConfig, strictURI,
                   uri, peerState>>

\* r.waitRealms.Add(1); go func() { realm.run(); r.waitRealms.Done() }()
AddRealmSpawn(p) ==
    /\ p \in Adders
    /\ pc[p] = "add_spawn"
    /\ waitRealms' = waitRealms + 1
    /\ insts' = [insts EXCEPT ![rlm[p]].task = "running"]
    /\ Return(p, "")
    /\ UNCHANGED sessionVars
    /\ UNCHANGED handshakeState
    /\ UNCHANGED <<realms, closed, autoRealmTemplate, tmplConfig, strictURI,
                   uri, rlm, peerState>>

\* realm.run() returns once the realm is closed.
RealmRunExit(i) ==
    /\ i \in DOMAIN insts
    /\ insts[i].task = "running"
    /\ insts[i].closed
    /\ insts' = [insts EXCEPT ![i].task = "exited"]
    /\ UNCHANGED sessionVars
    /\ UNCHANGED handshakeState
    /\ UNCHANGED <<realms, closed, waitRealms, autoRealmTemplate, tmplConfig,
                   strictURI, pc, uri, err, rlm, peerState>>

\* RealmTaskDone, were the task to end without r.waitRealms.Done().
RealmTaskDone_NoDone(i) ==
    /\ i \in DOMAIN insts
    /\ insts[i].task = "exited"
    /\ insts' = [insts EXCEPT ![i].task = "done"]
    /\ UNCHANGED sessionVars
    /\ UNCHANGED handshakeState
    /\ UNCHANGED <<realms, closed, waitRealms, autoRealmTemplate, tmplConfig,
                   strictURI, pc, uri, err, rlm, peerState>>

\* r.waitRealms.Done() of the realm's background task.
RealmTaskDone(i) ==
    /\ i \in DOMAIN insts
    /\ insts[i].task = "exited"
    /\ insts' = [insts EXCEPT ![i].task = "done"]
    /\ waitRealms' = waitRealms - 1
    /\ UNCHANGED sessionVars
    /\ UNCHANGED handshakeState
    /\ UNCHANGED <<realms, closed, autoRealmTemplate, tmplConfig, strictURI,
                   pc, uri, err, rlm, peerState>>

\* ------------------------------------------------------------------ Close
CloseCall(p) ==
    /\ p \in Closers
    /\ pc[p] = "idle"
    /\ pc' = [pc EXCEPT ![p] = "close_send"]
    /\ UNCHANGED sessionVars
    /\ UNCHANGED handshakeState
    /\ UNCHANGED <<routerState, uri, err, rlm, peerState>>

\* The instances after Close's closure called realm.close() on every
\* registered realm.
CloseRealms ==
    [i \in DOMAIN insts |->
        IF \E u \in DOMAIN realms : realms[u] = i
        THEN [insts[i] EXCEPT !.closed = TRUE]
        ELSE insts[i]]

\* router.run executes Close's closure; the caller receives from sync.
CloseAction(p) ==
    /\ p \in Closers
    /\ pc[p] = "close_send"
    /\ closed' = TRUE
    /\ insts' = CloseRealms
    /\ realms' = EmptyRealms
    /\ pc' = [pc EXCEPT ![p] = "close_wait"]
    /\ UNCHANGED sessionVars
    /\ UNCHANGED handshakeState
    /\ UNCHANGED <<waitRealms, autoRealmTemplate, tmplConfig, strictURI,
                   uri, err, rlm, peerState>>

\* WaitReturns, were Close not to wait.
WaitReturns_NoWait == TRUE

\* r.waitRealms.Wait() lets the caller go on.
WaitReturns == waitRealms = 0

CloseWait(p) ==
    /\ p \in Closers
    /\ pc[p] = "close_wait"
    /\ WaitReturns
    /\ Return(p, "")
    /\ UNCHANGED sessionVars
    /\ UNCHANGED handshakeState
    /\ UNCHANGED <<routerState, uri, rlm, peerState>>

\* ------------------------------------------------------------------ Attach
\* Attach starts by waiting for the peer's first message.
\* wamp.RecvTimeout(client, helloTimeout) returns an error: nothing arrived.
AttachHelloTimeout(p) ==
    /\ p \in Attachers
    /\ pc[p] = "idle"
    /\ Return(p, "did not receive HELLO")
    /\ UNCHANGED sessionVars
    /\ UNCHANGED handshakeState
    /\ UNCHANGED <<routerState, uri, rlm, peerState>>

\* The first message is not a HELLO.
AttachNotHello(p) ==
    /\ p \in Attachers
    /\ pc[p] = "idle"
    /\ sendAbort(p, ErrProtocolViolation)
    /\ Return(p, "protocol error: expected HELLO")
    /\ UNCHANGED sessionVars
    /\ UNCHANGED handshakeState
    /\ UNCHANGED <<routerState, uri, rlm>>

\* The first message is a HELLO naming realm u (possibly empty).
AttachHello(p) ==
    /\ p \in Attachers
    /\ pc[p] = "idle"
    /\ \E u \in URIs \cup {""} :
        /\ uri' = [uri EXCEPT ![p] = u]
        /\ IF u = ""
           THEN /\ sendAbort(p, ErrNoSuchRealm)
                /\ Return(p, "no realm requested")
           ELSE /\ pc' = [pc EXCEPT ![p] = "att_send"]
                /\ UNCHANGED <<err, peerState>>
    /\ UNCHANGED sessionVars
    /\ UNCHANGED handshakeState
    /\ UNCHANGED <<routerState, rlm>>

\* ResolveAbort, were r.closed not checked.
ResolveAbort_NoClosedCheck(u) ==
    IF u \notin DOMAIN realms /\ ~autoRealmTemplate THEN ErrNoSuchRealm ELSE ""

\* ResolveAbort, were a missing realm created with or without a template.
ResolveAbort_NoTemplateCheck(u) == IF closed THEN ErrSystemShutdown ELSE ""

\* What Attach's closure answers for realm u: the reason of the ABORT it
\* sends, or "" when a realm is resolved.
ResolveAbort(u) ==
    IF closed THEN ErrSystemShutdown
    ELSE IF u \notin DOMAIN realms /\ ~autoRealmTemplate THEN ErrNoSuchRealm
    ELSE ""

\* NeedsCreate, were the registry not looked up first.
NeedsCreate_Always(u) == TRUE

\* The closure creates a realm when the lookup r.realms[hello.Realm] fails.
NeedsCreate(u) == u \notin DOMAIN realms

ResolveError(reason) ==
    IF reason = ErrSystemShutdown
    THEN "router is closing, not accepting new clients"
    ELSE "no realm exists on this router"

\* router.run executes Attach's closure; the caller receives err from sync
\* and returns it when it is not nil.
AttachAction(p) ==
    /\ p \in Attachers
    /\ pc[p] = "att_send"
    /\ LET reason == ResolveAbort(uri[p]) IN
        IF reason /= ""
        THEN /\ sendAbort(p, reason)
             /\ Return(p, ResolveError(reason))
             /\ UNCHANGED <<realms, insts, tmplConfig, rlm>>
        ELSE /\ IF NeedsCreate(uri[p])
                THEN /\ tmplConfig' = [URI |-> uri[p], StrictURI |-> strictURI]
                     /\ insts' = Append(insts,
                                    NewRealm(uri[p], TemplateConfig, "Attach"))
                     /\ realms' = Register(uri[p], Len(insts) + 1)
                     /\ rlm' = [rlm EXCEPT ![p] = Len(insts) + 1]
                ELSE /\ rlm' = [rlm EXCEPT ![p] = realms[uri[p]]]
                     /\ UNCHANGED <<realms, insts, tmplConfig>>
             /\ pc' = [pc EXCEPT ![p] = "att_roles"]
             /\ UNCHANGED <<err, peerState>>
    /\ UNCHANGED sessionVars
    /\ UNCHANGED handshakeState
    /\ UNCHANGED <<closed, waitRealms, autoRealmTemplate, strictURI, uri>>

\* Role negotiation over Hello.Details.roles.
AttachRoles(p) ==
    /\ p \in Attachers
    /\ pc[p] = "att_roles"
    /\ \E roles \in RoleInputs :
        LET e == CheckRoles(roles) IN
        /\ hroles' = [hroles EXCEPT ![p] = roles]
        /\ IF e /= ""
           THEN /\ sendAbort(p, ErrNoSuchRole)
                /\ Return(p, e)
           ELSE /\ pc' = [pc EXCEPT ![p] = "att_auth"]
                /\ UNCHANGED <<err, peerState>>
    /\ UNCHANGED sessionVars
    /\ UNCHANGED sessID
    /\ UNCHANGED <<routerState, uri, rlm>>

\* wamp.GlobalID(): an ID no other call is given; the call p gets p.
GlobalID(p) == p

\* realm.authClient(client, hello.Details) succeeds or fails; on success
\* welcome.ID is assigned.
AttachAuth(p) ==
    /\ p \in Attachers
    /\ pc[p] = "att_auth"
    /\ \E ok \in BOOLEAN :
        IF ok
        THEN /\ sessID' = [sessID EXCEPT ![p] = GlobalID(p)]
             /\ pc' = [pc EXCEPT ![p] = "att_admit"]
             /\ UNCHANGED <<err, peerState>>
        ELSE /\ sendAbort(p, ErrAuthenticationFailed)
             /\ Return(p, "authentication error")
             /\ UNCHANGED sessID
    /\ UNCHANGED sessionVars
    /\ UNCHANGED hroles
    /\ UNCHANGED <<routerState, uri, rlm>>

\* realm.handleSession(sess) succeeds or fails.
AttachAdmit(p) ==
    /\ p \in Attachers
    /\ pc[p] = "att_admit"
    /\ \E ok \in BOOLEAN :
        IF ok
        THEN /\ pc' = [pc EXCEPT ![p] = "att_welcome"]
             /\ UNCHANGED <<err, peerState>>
        ELSE /\ sendAbort(p, ErrSystemShutdown)
             /\ Return(p, "realm not accepting sessions")
    /\ UNCHANGED sessionVars
    /\ UNCHANGED handshakeState
    /\ UNCHANGED <<routerState, uri, rlm>>

\* client.Send(welcome); return nil
AttachWelcome(p) ==
    /\ p \in Attachers
    /\ pc[p] = "att_welcome"
    /\ sent' = [sent EXCEPT ![p] = Append(@, Welcome)]
    /\ Return(p, "")
    /\ UNCHANGED sessionVars
    /\ UNCHANGED handshakeState
    /\ UNCHANGED <<routerState, uri, rlm, peerClosed>>

\* ------------------------------------------------------------------ system
Next ==
    \/ \E p \in Procs :
        \/ AddRealmCall(p)
        \/ AddRealmAction(p)
        \/ AddRealmSpawn(p)
        \/ CloseCall(p)
        \/ CloseAction(p)
        \/ CloseWait(p)
        \/ AttachHelloTimeout(p)
        \/ AttachNotHello(p)
        \/ AttachHello(p)
        \/ AttachAction(p)
        \/ AttachRoles(p)
        \/ AttachAuth(p)
        \/ AttachAdmit(p)
        \/ AttachWelcome(p)
    \/ \E i \in DOMAIN insts :
        \/ RealmRunExit(i)
        \/ RealmTaskDone(i)

Spec == Init /\ [][Next]_vars

\* ------------------------------------------------------------------ Session
routerVars == <<realms, closed, waitRealms, autoRealmTemplate, tmplConfig,
                strictURI, insts, pc, uri, err, rlm, sent, peerClosed,
                hroles, sessID>>

\* A task calls Done(), Goodbye() or End(goodbye) and reaches s.mu.Lock().
SessionCall(p) ==
    /\ p \in SessionCallers
    /\ spc[p] = "idle"
    /\ \E o \in {[method |-> "Done", arg |-> Nil],
                 [method |-> "Goodbye", arg |-> Nil]}
                \cup {[method |-> "End", arg |-> g] : g \in {Nil} \cup Reasons} :
        sop' = [sop EXCEPT ![p] = o]
    /\ spc' = [spc EXCEPT ![p] = "lock"]
    /\ UNCHANGED <<mu, done, goodbye, chans, sret>>
    /\ UNCHANGED routerVars

\* s.mu.Lock()
SessionLock(p) ==
    /\ p \in SessionCallers
    /\ spc[p] = "lock"
    /\ mu = 0
    /\ mu' = p
    /\ spc' = [spc EXCEPT ![p] = "locked"]
    /\ UNCHANGED <<done, goodbye, chans, sop, sret>>
    /\ UNCHANGED routerVars

\* make(chan struct{})
NewChan == 1 + Cardinality(DOMAIN chans)

\* DoneMakes, were every Done() to allocate.
DoneMakes_Always == TRUE

\* Done() allocates the channel when s.done is nil.
DoneMakes == done = NilChan

\* Done(), from the lock to the return.
SessionDone(p) ==
    /\ p \in SessionCallers
    /\ spc[p] = "locked"
    /\ sop[p].method = "Done"
    /\ IF DoneMakes
       THEN /\ done' = NewChan
            /\ chans' = [c \in (DOMAIN chans) \cup {NewChan} |->
                            IF c = NewChan THEN 0 ELSE chans[c]]
       ELSE UNCHANGED <<done, chans>>
    /\ sret' = [sret EXCEPT ![p] = [NoRet EXCEPT !.kind = "chan", !.chan = done']]
    /\ mu' = 0
    /\ spc' = [spc EXCEPT ![p] = "done"]
    /\ UNCHANGED <<goodbye, sop>>
    /\ UNCHANGED routerVars

\* Goodbye(), from the lock to the return.
SessionGoodbye(p) ==
    /\ p \in SessionCallers
    /\ spc[p] = "locked"
    /\ sop[p].method = "Goodbye"
    /\ sret' = [sret EXCEPT ![p] =
                    [NoRet EXCEPT !.kind = "goodbye", !.goodbye = goodbye]]
    /\ mu' = 0
    /\ spc' = [spc EXCEPT ![p] = "done"]
    /\ UNCHANGED <<done, goodbye, chans, sop>>
    /\ UNCHANGED routerVars

\* AlreadyEnded, were s.goodbye not checked.
AlreadyEnded_Never == FALSE

\* End returns false at once when the session has already ended.
AlreadyEnded == goodbye /= Nil

\* The reason End records for its argument.
Recorded(g) == IF g = Nil THEN NoGoodbye ELSE g

\* End(goodbye), from the lock to the return.
SessionEnd(p) ==
    /\ p \in SessionCallers
    /\ spc[p] = "locked"
    /\ sop[p].method = "End"
    /\ IF AlreadyEnded
       THEN /\ sret' = [sret EXCEPT ![p] = [NoRet EXCEPT !.kind = "bool"]]
            /\ UNCHANGED <<done, goodbye, chans>>
       ELSE /\ goodbye' = Recorded(sop[p].arg)
            /\ IF done = NilChan
               THEN /\ done' = closedchan
                    /\ UNCHANGED chans
               ELSE /\ chans' = [chans EXCEPT ![done] = @ + 1]
                    /\ UNCHANGED done
            /\ sret' = [sret EXCEPT ![p] =
                            [NoRet EXCEPT !.kind = "bool", !.bool = TRUE]]
    /\ mu' = 0
    /\ spc' = [spc EXCEPT ![p] = "done"]
    /\ UNCHANGED sop
    /\ UNCHANGED routerVars

SessionNext ==
    \E p \in SessionCallers :
        \/ SessionCall(p)
        \/ SessionLock(p)
        \/ SessionDone(p)
        \/ SessionGoodbye(p)
        \/ SessionEnd(p)

SessionSpec == Init /\ [][SessionNext]_vars

\* ------------------------------------------------------------------ claims
ErrInvalid == "invalid realm URI"
ErrClosed == "error adding realm: router closed"
ErrExists == "error adding realm: realm already exists"
ErrClosing == "router is closing, not accepting new clients"
ErrNoRealm == "no realm exists on this router"

\* The AddRealm call of p got past the registry: its closure has run.
AddActed(p) == pc[p] = "add_spawn" \/ (pc[p] = "done" /\ err[p] /= ErrInvalid)
\* The AddRealm call of p succeeds: its realm is registered.
AddSucceeded(p) == pc[p] = "add_spawn" \/ (pc[p] = "done" /\ err[p] = "")
\* The realm instances ever made for identifier u.
InstancesOf(u) == {i \in DOMAIN insts : insts[i].uri = u}
AutoCreated == {i \in DOMAIN insts : insts[i].by = "Attach"}

\* C1: of two AddRealm calls with the same valid identifier that both ran on
\* an open router (no third call having made a realm for that identifier),
\* exactly one succeeds, the other fails with "realm already exists", and the
\* registry holds the one realm made for that identifier.
C1_SameIdOneWins ==
    \A p \in Adders : \A q \in Adders \ {p} :
        ( /\ AddActed(p) /\ AddActed(q)
          /\ uri[p] = uri[q]
          /\ ~closed
          /\ InstancesOf(uri[p]) \subseteq {rlm[p], rlm[q]} )
        => /\ \/ AddSucceeded(p) /\ pc[q] = "done" /\ err[q] = ErrExists
              \/ AddSucceeded(q) /\ pc[p] = "done" /\ err[p] = ErrExists
           /\ uri[p] \in DOMAIN realms
           /\ InstancesOf(uri[p]) = {realms[uri[p]]}

C1_Witness ==
    \E p \in Adders : \E q \in Adders \ {p} :
        /\ pc[p] = "done" /\ pc[q] = "done"
        /\ uri[p] = uri[q]
        /\ err[p] = "" /\ err[q] = ErrExists
        /\ ~closed
        /\ InstancesOf(uri[p]) = {rlm[p]}

\* C2: when every AddRealm call has run on an open router, with pairwise
\* distinct valid identifiers and no realm auto-created by Attach, every call
\* succeeds and the registry's keys are exactly the identifiers added.
C2_DistinctIdsAllRegistered ==
    ( /\ \A p \in Adders : AddActed(p)
      /\ \A p \in Adders : \A q \in Adders \ {p} : uri[p] /= uri[q]
      /\ ~closed
      /\ AutoCreated = {} )
    => /\ \A p \in Adders : AddSucceeded(p)
       /\ DOMAIN realms = {uri[p] : p \in Adders}
       /\ \A p \in Adders : realms[uri[p]] = rlm[p]

C2_Witness ==
    /\ \A p \in Adders : pc[p] = "done" /\ err[p] = ""
    /\ \A p \in Adders : \A q \in Adders \ {p} : uri[p] /= uri[q]
    /\ ~closed
    /\ AutoCreated = {}
    /\ Cardinality(DOMAIN realms) = NumAdders

\* C3: at the step where Close returns, the run loop of every realm whose
\* AddRealm call has returned successfully (so also of every realm added
\* before Close was called) has exited and its task is finished; and an
\* Attach whose registry action runs after Close returned fails with a
\* system-shutdown ABORT sent to the peer.
C3_CloseWaitsThenAttachFails ==
    [][ /\ \A c \in Closers :
            (pc[c] = "close_wait" /\ pc'[c] = "done")
            => \A a \in Adders :
                (pc[a] = "done" /\ err[a] = "")
                => insts[rlm[a]].task = "done"
        /\ \A c \in Closers : \A p \in Attachers :
            (pc[c] = "done" /\ pc[p] = "att_send" /\ pc'[p] /= "att_send")
            => /\ pc'[p] = "done"
               /\ err'[p] = ErrClosing
               /\ sent'[p] = <<Abort(ErrSystemShutdown)>>
      ]_vars

C3_Witness ==
    /\ \A a \in Adders : pc[a] = "done" /\ err[a] = ""
    /\ \A a \in Adders : \A b \in Adders \ {a} : uri[a] /= uri[b]
    /\ \A a \in Adders : insts[rlm[a]].task = "done"
    /\ \A c \in Closers : pc[c] = "done"
    /\ \E p \in Attachers :
        /\ pc[p] = "done"
        /\ \E a \in Adders : uri[p] = uri[a]
        /\ err[p] = ErrClosing
        /\ sent[p] = <<Abort(ErrSystemShutdown)>>

\* C4: whenever a Close call has returned, the run loop of every realm that
\* an AddRealm call added successfully has finished.
C4_CloseWaitsForEveryAddedRealm ==
    \A c \in Closers :
        pc[c] = "done"
        => \A a \in Adders :
            (pc[a] = "done" /\ err[a] = "")
            => insts[rlm[a]].task = "done"

\* C5: once r.closed is set, the registry action of every AddRealm and of
\* every Attach fails (Attach sends a system-shutdown ABORT and closes the
\* peer), and the registry gains no entry.
C5_ClosedFailsFast ==
    [][ closed =>
        /\ \A p \in Adders :
            (pc[p] = "add_send" /\ pc'[p] /= "add_send")
            => /\ pc'[p] = "done"
               /\ err'[p] = ErrClosed
               /\ realms' = realms /\ insts' = insts
        /\ \A p \in Attachers :
            (pc[p] = "att_send" /\ pc'[p] /= "att_send")
            => /\ pc'[p] = "done"
               /\ err'[p] = ErrClosing
               /\ sent'[p] = <<Abort(ErrSystemShutdown)>>
               /\ peerClosed'[p]
               /\ realms' = realms /\ insts' = insts
        /\ closed'
        /\ DOMAIN realms' \subseteq DOMAIN realms
      ]_vars

C5_Witness ==
    /\ closed
    /\ \E p \in Adders : pc[p] = "done" /\ err[p] = ErrClosed
    /\ \E p \in Attachers :
        /\ pc[p] = "done" /\ err[p] = ErrClosing
        /\ sent[p] = <<Abort(ErrSystemShutdown)>>
    /\ DOMAIN realms = {}

\* ------------------------------------------------------------------ claims on Session
EndReturned(p) == spc[p] = "done" /\ sop[p].method = "End"
EndReturnedTrue == {p \in SessionCallers : EndReturned(p) /\ sret[p].bool}
DoneReturned(p) == spc[p] = "done" /\ sop[p].method = "Done"

\* C6: at most one End call returns true; the session has a reason exactly
\* when one did, and the reason is that call's argument, or NoGoodbye (which
\* is not nil) for a nil argument; once set the reason never changes, and an
\* End that runs on an ended session returns false.
C6_FirstEndWins ==
    [][ /\ goodbye /= Nil => goodbye' = goodbye
        /\ \A p \in SessionCallers :
            (goodbye /= Nil /\ ~EndReturned(p) /\ EndReturned(p)')
            => ~sret'[p].bool
        /\ Cardinality(EndReturnedTrue') <= 1
        /\ (goodbye' /= Nil) <=> (EndReturnedTrue' /= {})
        /\ \A p \in EndReturnedTrue' :
            goodbye' = (IF sop'[p].arg = Nil THEN NoGoodbye ELSE sop'[p].arg)
        /\ NoGoodbye /= Nil
      ]_vars

C6_Witness ==
    \E p \in SessionCallers : \E q \in SessionCallers \ {p} :
        /\ EndReturned(p) /\ sop[p].arg = "reasonA" /\ sret[p].bool
        /\ EndReturned(q) /\ sop[q].arg = "reasonB" /\ ~sret[q].bool
        /\ goodbye = "reasonA"
        /\ \E r \in SessionCallers :
            /\ spc[r] = "done" /\ sop[r].method = "Goodbye"
            /\ sret[r].goodbye = "reasonA"

\* C7: the channel any Done call returned is closed exactly when an End has
\* taken effect; no channel is closed twice; after End the session's done
\* channel is set and closed; and until End all Done calls return the same
\* channel.
C7_DoneSignalsOnce ==
    /\ \A p \in SessionCallers :
        DoneReturned(p) => ((chans[sret[p].chan] >= 1) <=> (goodbye /= Nil))
    /\ \A c \in DOMAIN chans : chans[c] <= 1
    /\ goodbye /= Nil => (done /= NilChan /\ chans[done] = 1)
    /\ goodbye = Nil =>
        \A p \in SessionCallers : \A q \in SessionCallers :
            (DoneReturned(p) /\ DoneReturned(q)) => sret[p].chan = sret[q].chan

C7_Witness ==
    \E p \in SessionCallers : \E q \in SessionCallers \ {p} :
        /\ DoneReturned(p) /\ DoneReturned(q)
        /\ sret[p].chan /= closedchan
        /\ chans[sret[p].chan] = 1 /\ chans[sret[q].chan] = 1
        /\ EndReturnedTrue /= {}

\* ------------------------------------------------------------------ claims on Attach
ErrNoHello == "did not receive HELLO"
RoleErrors == {"no client roles specified", "invalid client role specified"}
ErrAuth == "authentication error"
ErrAdmit == "realm not accepting sessions"

\* C8: an Attach that received no HELLO within the timeout has returned an
\* error, sent a protocol-violation ABORT and closed the peer's transport.
C8_HelloTimeoutAborts ==
    \A p \in Attachers :
        (pc[p] = "done" /\ uri[p] = "" /\ err[p] = ErrNoHello)
        => /\ err[p] /= ""
           /\ sent[p] = <<Abort(ErrProtocolViolation)>>
           /\ peerClosed[p]

\* The registry action of Attach p runs in this step.
Resolves(p) == pc[p] = "att_send" /\ pc'[p] /= "att_send"

\* C9: on an open router, Attach's registry action for an identifier that is
\* not registered fails with a no-such-realm ABORT and leaves the registry
\* alone when no template is configured; with a template it registers the
\* identifier and goes on, and the call then fails only at role negotiation,
\* authentication or admission, and otherwise returns nil after a WELCOME.
\* The entry stays while the router is open, and an AddRealm whose
\* registry action finds the identifier registered fails with "already
\* exists".
C9_UnknownRealm ==
    [][ /\ \A p \in Attachers :
            (Resolves(p) /\ ~closed /\ uri[p] \notin DOMAIN realms)
            => IF autoRealmTemplate
               THEN /\ pc'[p] = "att_roles"
                    /\ uri[p] \in DOMAIN realms'
                    /\ realms'[uri[p]] = rlm'[p]
                    /\ sent'[p] = <<>>
               ELSE /\ pc'[p] = "done"
                    /\ err'[p] = ErrNoRealm
                    /\ sent'[p] = <<Abort(ErrNoSuchRealm)>>
                    /\ peerClosed'[p]
                    /\ realms' = realms /\ insts' = insts
        /\ \A p \in Attachers :
            (rlm[p] /= NoRealm /\ pc[p] /= "done" /\ pc'[p] = "done")
            => \/ err'[p] \in RoleErrors /\ pc[p] = "att_roles"
               \/ err'[p] = ErrAuth /\ pc[p] = "att_auth"
               \/ err'[p] = ErrAdmit /\ pc[p] = "att_admit"
               \/ err'[p] = "" /\ sent'[p] = <<Welcome>> /\ ~peerClosed'[p]
        /\ ~closed' => \A u \in DOMAIN realms :
                           u \in DOMAIN realms' /\ realms'[u] = realms[u]
        /\ \A a \in Adders :
            (pc[a] = "add_send" /\ pc'[a] /= "add_send"
                /\ ~closed /\ uri[a] \in DOMAIN realms)
            => /\ pc'[a] = "done" /\ err'[a] = ErrExists
               /\ realms' = realms /\ insts' = insts
      ]_vars

\* With a template, an Attach that auto-created its realm returned nil and
\* an AddRealm for the same identifier failed with "already exists".
C9_Witness ==
    /\ autoRealmTemplate
    /\ ~closed
    /\ \E p \in Attachers : \E a \in Adders :
        /\ pc[p] = "done" /\ err[p] = "" /\ sent[p] = <<Welcome>>
        /\ rlm[p] \in AutoCreated
        /\ uri[a] = uri[p]
        /\ pc[a] = "done" /\ err[a] = ErrExists
        /\ realms[uri[p]] = rlm[p]

\* Without a template, an Attach for an unregistered identifier failed with
\* no-such-realm.
C9_WitnessNoTemplate ==
    /\ ~autoRealmTemplate
    /\ ~closed
    /\ \E p \in Attachers :
        /\ pc[p] = "done" /\ err[p] = ErrNoRealm
        /\ sent[p] = <<Abort(ErrNoSuchRealm)>>
        /\ uri[p] \notin DOMAIN realms

\* C10: two Attach calls that resolved a realm for the same identifier hold
\* the same realm instance, it is the only instance ever made for that
\* identifier, and while the router is open it is the registered one.
C10_OneAutoCreation ==
    \A p \in Attachers : \A q \in Attachers \ {p} :
        (uri[p] = uri[q] /\ rlm[p] /= NoRealm /\ rlm[q] /= NoRealm)
        => /\ rlm[p] = rlm[q]
           /\ InstancesOf(uri[p]) = {rlm[p]}
           /\ ~closed => (uri[p] \in DOMAIN realms /\ realms[uri[p]] = rlm[p])

C10_Witness ==
    \E p \in Attachers : \E q \in Attachers \ {p} :
        /\ autoRealmTemplate
        /\ ~closed
        /\ uri[p] = uri[q]
        /\ rlm[p] \in AutoCreated
        /\ rlm[q] = rlm[p]
        /\ pc[p] = "att_roles" /\ pc[q] = "att_roles"

\* ------------------------------------------------------------------ claims on auto-created realms
\* The Attach calls that resolved realm instance i.
Holders(i) == {p \in Attachers : rlm[p] = i}

\* C11: once the Attach calls that resolved an auto-created realm have
\* returned, the realm's run loop has been spawned as a background task (as
\* AddRealm has done for its realm by the time it returns), and a Close that
\* has returned has waited for that task.
C11_AutoRealmStarted ==
    \A i \in AutoCreated :
        (Holders(i) /= {} /\ \A p \in Holders(i) : pc[p] = "done")
        => /\ insts[i].task /= "none"
           /\ (\E c \in Closers : pc[c] = "done") => insts[i].task = "done"

\* ------------------------------------------------------------------ claims on the handshake
\* The roles record is there, not empty, and names only known roles.
RolesAcceptable(roles) ==
    /\ roles.present
    /\ roles.names /= {}
    /\ roles.names \subseteq {"publisher", "subscriber", "caller", "callee"}

Welcomes(p) == {k \in DOMAIN sent[p] : sent[p][k].type = "WELCOME"}
Aborts(p) == {k \in DOMAIN sent[p] : sent[p][k].type = "ABORT"}

\* C12: a WELCOME is sent only by a call that resolved a realm, read
\* acceptable roles, was authenticated (its ID is assigned) and whose session
\* the realm admitted; a call has returned nil exactly when it has returned
\* having sent one WELCOME; and no call sends both an ABORT and a WELCOME or
\* more than one of either.
C12_WelcomeLast ==
    [][ \A p \in Attachers :
        /\ Welcomes(p)' /= Welcomes(p)
            => /\ pc[p] = "att_welcome"
               /\ rlm[p] /= NoRealm
               /\ RolesAcceptable(hroles[p])
               /\ sessID[p] /= NoID
               /\ sent[p] = <<>>
        /\ (pc'[p] = "att_welcome" /\ pc[p] /= "att_welcome")
            => /\ pc[p] = "att_admit"
               /\ sessID[p] /= NoID
               /\ RolesAcceptable(hroles[p])
        /\ (pc'[p] = "att_admit" /\ pc[p] /= "att_admit")
            => /\ pc[p] = "att_auth"
               /\ RolesAcceptable(hroles[p])
               /\ rlm[p] /= NoRealm
        /\ pc'[p] = "done"
            => ((err'[p] = "") <=> (Cardinality(Welcomes(p)') = 1))
        /\ Cardinality(Welcomes(p)') + Cardinality(Aborts(p)') <= 1
        /\ Len(sent'[p]) = Cardinality(Welcomes(p)') + Cardinality(Aborts(p)')
      ]_vars

C12_Witness ==
    \E p \in Attachers : \E q \in Attachers \ {p} :
        /\ pc[p] = "done" /\ err[p] = "" /\ sent[p] = <<Welcome>>
        /\ sessID[p] /= NoID /\ RolesAcceptable(hroles[p])
        /\ pc[q] = "done" /\ err[q] /= "" /\ Cardinality(Aborts(q)) = 1

\* realm.handleSession(sess) has returned nil for the call's session: the
\* realm holds the session and its peer.
HandedOff(p) == pc[p] = "att_welcome" \/ (pc[p] = "done" /\ err[p] = "")

\* C13: once the session is handed to the realm, Attach sends nothing more
\* to the peer and does not close it: from then on the peer is the realm's.
C13_PeerOwnership ==
    [][ \A p \in Attachers :
        HandedOff(p) => (sent'[p] = sent[p] /\ peerClosed'[p] = peerClosed[p])
      ]_vars

\* A closure submitted by call p is executed by router.run in this step.
LoopRuns(p) ==
    /\ pc[p] \in {"add_send", "att_send", "close_send"}
    /\ pc'[p] /= pc[p]

\* C14: no closure executed by router.run sends a message to a peer or
\* closes a peer's transport.
C14_LoopNeverTouchesPeer ==
    [][ \A p \in Procs :
        LoopRuns(p) => (sent' = sent /\ peerClosed' = peerClosed)
      ]_vars

\* C15: a call that read a HELLO with no roles record, an empty one, or one
\* naming a role other than publisher, subscriber, caller, callee has
\* returned an error, with a no-such-role ABORT as the only message sent and
\* the transport closed; it was given no session ID.
C15_BadRolesAbort ==
    \A p \in Attachers :
        (hroles[p] /= NotRead /\ ~RolesAcceptable(hroles[p]))
        => /\ pc[p] = "done"
           /\ err[p] \in RoleErrors
           /\ sent[p] = <<Abort(ErrNoSuchRole)>>
           /\ peerClosed[p]
           /\ sessID[p] = NoID

C15_Witness ==
    \E p \in Attachers : \E q \in Attachers \ {p} :
        /\ hroles[p] = [present |-> TRUE, names |-> {"publisher", "bogus-role"}]
        /\ sent[p] = <<Abort(ErrNoSuchRole)>>
        /\ hroles[q] \in {NoRoles, [present |-> TRUE, names |-> {}]}
        /\ sent[q] = <<Abort(ErrNoSuchRole)>>

\* ------------------------------------------------------------------ termination
InCall(p) == pc[p] \notin {"idle", "done"}

\* The next step of the call of p, and the steps of the realm tasks.
StepOf(p) ==
    \/ AddRealmAction(p) \/ AddRealmSpawn(p)
    \/ CloseAction(p) \/ CloseWait(p)
    \/ AttachAction(p) \/ AttachRoles(p) \/ AttachAuth(p)
    \/ AttachAdmit(p) \/ AttachWelcome(p)
TaskStep == \E i \in DOMAIN insts : RealmRunExit(i) \/ RealmTaskDone(i)

\* Steps a call at this position, or a realm task in this state, has left.
StepsLeft(where) ==
    CASE where \in {"done", "none"} -> 0
      [] where = "exited" -> 1
      [] where \in {"running", "att_welcome"} -> 2
      [] where \in {"add_spawn", "close_wait", "att_admit"} -> 3
      [] where \in {"add_send", "close_send", "att_auth"} -> 4
      [] where = "att_roles" -> 5
      [] where = "att_send" -> 6
      [] where = "idle" -> 7

\* A step brings the system nearer to its end: no call moves back, and
\* either a call moves on, or no realm task moves back and one moves on.
Progress ==
    /\ \A p \in Procs : StepsLeft(pc'[p]) <= StepsLeft(pc[p])
    /\ \/ \E p \in Procs : StepsLeft(pc'[p]) < StepsLeft(pc[p])
       \/ /\ DOMAIN insts' = DOMAIN insts
          /\ \A i \in DOMAIN insts :
                StepsLeft(insts'[i].task) <= StepsLeft(insts[i].task)
          /\ \E i \in DOMAIN insts :
                StepsLeft(insts'[i].task) < StepsLeft(insts[i].task)

\* No call that has started is stuck: its own next step can be taken, or it
\* is Close waiting for realm tasks and one of those can take a step.
NoCallStuck ==
    \A p \in Procs :
        InCall(p) => \/ ENABLED StepOf(p)
                     \/ pc[p] = "close_wait" /\ ENABLED TaskStep

C17_ClosedRegistryEmpty ==
    closed => DOMAIN realms = {}

\* The router is closed, realms that were registered have been removed, and
\* an AddRealm and an Attach for an identifier have run since.
C17_Witness ==
    /\ closed
    /\ DOMAIN realms = {}
    /\ \E i \in DOMAIN insts : insts[i].closed /\ insts[i].by = "AddRealm"
    /\ \E i \in AutoCreated : insts[i].closed
    /\ \E a \in Adders : pc[a] = "done" /\ err[a] = ErrClosed
    /\ \E p \in Attachers : pc[p] = "done" /\ err[p] = ErrClosing

\* C18 as first stated: an Attach that ended aborted has added no realm; an
\* auto-created realm that an aborted call resolved was made by another call.
C18_AbortedLeavesRegistry ==
    \A p \in Attachers :
        (pc[p] = "done" /\ err[p] /= "" /\ rlm[p] \in AutoCreated)
        => Holders(rlm[p]) /= {p}

\* C18, amended: the only step of an Attach call that changes the registry
\* is its registry action when it resolves an identifier that is not
\* registered, and it adds just the new realm under that identifier; every
\* other step, so every step that aborts (no HELLO, wrong message, empty
\* realm, router closed, unknown realm without template, roles,
\* authentication, admission) leaves the registry and the realms as they
\* are, an auto-created realm included.
C18_OnlyResolveRegisters ==
    [][ \A p \in Attachers :
        pc'[p] /= pc[p]
        => IF Resolves(p) /\ pc'[p] = "att_roles" /\ uri[p] \notin DOMAIN realms
           THEN /\ DOMAIN realms' = (DOMAIN realms) \cup {uri[p]}
                /\ \A u \in DOMAIN realms : realms'[u] = realms[u]
                /\ realms'[uri[p]] = Len(insts) + 1
                /\ insts' = Append(insts, insts'[Len(insts) + 1])
                /\ insts'[Len(insts) + 1].by = "Attach"
                /\ rlm'[p] = Len(insts) + 1
           ELSE realms' = realms /\ insts' = insts
      ]_vars

\* A call aborted at role negotiation, authentication or admission, and the
\* realm its registry action auto-created is still registered.
C18_Witness ==
    \E p \in Attachers :
        /\ pc[p] = "done"
        /\ err[p] \in RoleErrors \cup {ErrAuth, ErrAdmit}
        /\ rlm[p] \in AutoCreated
        /\ Holders(rlm[p]) = {p}
        /\ uri[p] \in DOMAIN realms
        /\ realms[uri[p]] = rlm[p]

\* ------------------------------------------------ claims on auto-creation
\* C19: auto-creating a realm leaves the auto-realm template as NewRouter
\* received it (its identifier field still unset), and no auto-created realm
\* is built on the template object itself: each has a configuration of its
\* own.
C19_TemplateUnchanged ==
    /\ tmplConfig = [URI |-> "", StrictURI |-> FALSE]
    /\ \A i \in AutoCreated : insts[i].config /= TemplateConfig

\* C20: every identifier that is a key of the registry is one AddRealm would
\* accept under the router's strictness policy.
C20_RegistryKeysValid ==
    \A u \in DOMAIN realms : ValidURI(u, strictURI)

====
